---- MODULE Spec2Model ----
(***************************************************************************)
(* Model of scripts/validate_policy.py: RegoWASMValidator.validate_input,  *)
(* _check_rules and _valid_ticket, evaluated by one or more callers        *)
(* against the policy data the validator loaded at construction.           *)
(*                                                                         *)
(* A Python dict is a function whose DOMAIN is the set of keys present.    *)
(* A Python str that the code takes apart (ticket_id) is a sequence of     *)
(* one-character strings; every other str is a TLA+ string.                *)
(***************************************************************************)
EXTENDS Integers, Sequences, FiniteSets, TLC

VARIABLES policy_file, data, pc, input_data, result,
          runner, bpc, scenarios, idx, passed, failed, results, exit_code, loaded

\* the state of a batch runner (main, run_comprehensive_tests)
batchvars == <<runner, bpc, scenarios, idx, passed, failed, results, exit_code, loaded>>

vars == <<policy_file, data, pc, input_data, result, batchvars>>

(***************************************************************************)
(* Bounds of the model.                                                    *)
(***************************************************************************)
\* integers of the documents (thresholds, counters, list lengths) are 0..MaxN
MaxN == 3
\* ticket ids have at most MaxLen characters
MaxLen == 2
\* callers that evaluate concurrently on one validator (SpecConc)
NumThreads == 2
\* a batch runner finds at most MaxBatch scenario files (SpecBatch)
MaxBatch == 2

(***************************************************************************)
(* Dicts.                                                                  *)
(***************************************************************************)
EmptyDict == [k \in {} |-> FALSE]

\* d.get(k, default)
Get(d, k, default) == IF k \in DOMAIN d THEN d[k] ELSE default

\* bool(d.get(k)) of a boolean-typed key: the None of an absent key is falsy
Truthy(d, k) == k \in DOMAIN d /\ d[k] = TRUE

\* d.get(k) == False: the None of an absent key is not equal to False
IsFalse(d, k) == k \in DOMAIN d /\ d[k] = FALSE

\* d.get(k) == True
IsTrue(d, k) == k \in DOMAIN d /\ d[k] = TRUE

Put(d, k, v) == [x \in (DOMAIN d) \cup {k} |-> IF x = k THEN v ELSE d[x]]

Del(d, k) == [x \in (DOMAIN d) \ {k} |-> d[x]]

(***************************************************************************)
(* Violation messages: the text of the f-string with its interpolated      *)
(* numbers and strings.                                                    *)
(***************************************************************************)
Msg(text) == [text |-> text, nums |-> <<>>, strs |-> <<>>]

MsgN(text, a, b) == [text |-> text, nums |-> <<a, b>>, strs |-> <<>>]

MsgS(text, s) == [text |-> text, nums |-> <<>>, strs |-> <<s>>]

(***************************************************************************)
(* re.match(pattern, ticket_id) of the Python library, on the patterns of  *)
(* the model.  A pattern compiles to a literal that must be a prefix of    *)
(* the subject (a match starts at position 0), with or without a closing   *)
(* "$" that forces the match to end at the end of the subject; or the      *)
(* compilation raises re.error (unbalanced parenthesis) or OverflowError   *)
(* (a repetition count of 2^32 or more).                                   *)
(***************************************************************************)
ReCompile(pattern) ==
    CASE pattern = "J"             -> [ok |-> TRUE, lit |-> <<"J">>, dollar |-> FALSE]
      [] pattern = "1"             -> [ok |-> TRUE, lit |-> <<"1">>, dollar |-> FALSE]
      [] pattern = "^J1$"          -> [ok |-> TRUE, lit |-> <<"J", "1">>, dollar |-> TRUE]
      [] pattern = "("             -> [ok |-> FALSE, exc |-> "re.error"]
      [] pattern = "J{4294967296}" -> [ok |-> FALSE, exc |-> "OverflowError"]

\* str(e) of the exceptions re.compile raises
ExcStr(exc) ==
    CASE exc = "re.error"      -> "missing ), unterminated subpattern at position 0"
      [] exc = "OverflowError" -> "the repetition number is too large"

IsPrefix(p, s) == Len(p) <= Len(s) /\ SubSeq(s, 1, Len(p)) = p

\* the outcome of re.match: a match object (truthy), None, or an exception
ReMatch(pattern, ticket_id) ==
    LET c == ReCompile(pattern) IN
    IF ~c.ok THEN [raised |-> TRUE, exc |-> c.exc, value |-> FALSE]
    ELSE [raised |-> FALSE, exc |-> "",
          value |-> IsPrefix(c.lit, ticket_id)
                    /\ (c.dollar => Len(ticket_id) = Len(c.lit))]

Returned(v) == [raised |-> FALSE, exc |-> "", value |-> v]

\* _valid_ticket: only re.error is caught
ValidTicket(ticket_id, pattern) ==
    IF ticket_id = <<>> THEN Returned(FALSE)
    ELSE IF pattern = "" THEN Returned(TRUE)
    ELSE LET m == ReMatch(pattern, ticket_id) IN
         IF m.raised /\ m.exc = "re.error" THEN Returned(FALSE)
         ELSE m

(***************************************************************************)
(* _check_rules, one operator per check, each the violations it appends.   *)
(***************************************************************************)
CheckTestsPassed(input, rules) ==
    IF Truthy(rules, "tests_passed") /\ ~Truthy(Get(input, "checks", EmptyDict), "tests")
    THEN <<Msg("Rule#1: tests required but not passed")>> ELSE <<>>

CheckArtifactSigned(input, rules) ==
    IF Truthy(rules, "artifact_signed") /\ ~Truthy(input, "artifact_signed")
    THEN <<Msg("Rule#1: artifact must be signed")>> ELSE <<>>

CheckReleaseControlled(input, rules) ==
    IF Truthy(rules, "release_controlled") /\ ~Truthy(input, "release_controlled")
    THEN <<Msg("Rule#1: release must be controlled")>> ELSE <<>>

CheckReviewers(input, rules) ==
    IF Truthy(rules, "require_reviewers")
    THEN LET min_reviewers == Get(rules, "min_reviewers", 0)
             approvers == Len(Get(input, "approvers", <<>>))
         IN IF approvers < min_reviewers
            THEN <<MsgN("Rule#1: at least {} approvers required (got {})",
                        min_reviewers, approvers)>>
            ELSE <<>>
    ELSE <<>>

CheckSharedInfraTruthy(input, rules) ==
    IF ~Truthy(rules, "shared_infra_except_core") /\ IsTrue(input, "shared_infra")
    THEN <<Msg("Rule#2: production cannot run on shared infra (except core)")>> ELSE <<>>

CheckSharedInfra(input, rules) ==
    IF IsFalse(rules, "shared_infra_except_core") /\ IsTrue(input, "shared_infra")
    THEN <<Msg("Rule#2: production cannot run on shared infra (except core)")>> ELSE <<>>

CheckChangeRecorded(input, rules) ==
    IF Truthy(rules, "change_recorded") /\ ~Truthy(input, "change_recorded")
    THEN <<Msg("Rule#3: change must be recorded")>> ELSE <<>>

\* the ticket check may raise: [raised, exc, value], value the violations
CheckTicket(input, rules) ==
    IF Truthy(rules, "require_ticket")
    THEN LET ticket_id == Get(input, "ticket_id", <<>>)
             ticket_pattern == Get(rules, "ticket_pattern", "")
             valid == ValidTicket(ticket_id, ticket_pattern)
         IN IF valid.raised THEN [raised |-> TRUE, exc |-> valid.exc, value |-> <<>>]
            ELSE IF ~valid.value
            THEN Returned(<<MsgS("Rule#3: ticket id invalid/missing (pattern {})",
                                 ticket_pattern)>>)
            ELSE Returned(<<>>)
    ELSE Returned(<<>>)

CheckDateAgreed(input, rules) ==
    IF Truthy(rules, "deployment_date_agreed") /\ ~Truthy(input, "deployment_date_agreed")
    THEN <<Msg("Rule#4: deployment date not agreed")>> ELSE <<>>

CheckWaitTimer(input, rules) ==
    LET wait_timer == Get(rules, "wait_timer_seconds", 0) IN
    IF wait_timer > 0
    THEN LET elapsed == Get(input, "wait_elapsed_seconds", 0) IN
         IF elapsed < wait_timer
         THEN <<MsgN("Rule#4: wait timer not elapsed ({} < {})", elapsed, wait_timer)>>
         ELSE <<>>
    ELSE <<>>

CheckSignOffNoBypass(input, rules) ==
    IF Truthy(rules, "signed_off") /\ ~Truthy(input, "signed_off")
    THEN <<Msg("Rule#5: missing required sign-off")>> ELSE <<>>

CheckSignOff(input, rules) ==
    IF /\ Truthy(rules, "signed_off")
       /\ ~Truthy(input, "is_emergency")
       /\ ~Truthy(input, "signed_off")
    THEN <<Msg("Rule#5: missing required sign-off")>> ELSE <<>>

CheckRetrospectiveTruthy(input, rules) ==
    IF Truthy(input, "is_emergency") /\ ~Truthy(rules, "retrospective_signoff")
    THEN <<Msg("Rule#5: emergency path requires retrospective_signoff enabled")>> ELSE <<>>

CheckRetrospective(input, rules) ==
    IF Truthy(input, "is_emergency") /\ IsFalse(rules, "retrospective_signoff")
    THEN <<Msg("Rule#5: emergency path requires retrospective_signoff enabled")>> ELSE <<>>

CheckComponents(input, rules) ==
    IF Truthy(rules, "components_unchanged")
       /\ Truthy(input, "components_changed_after_signoff")
    THEN <<Msg("Rule#6: components changed after signoff; require new signoff")>> ELSE <<>>

CheckRollback(input, rules) ==
    IF Truthy(rules, "rollback_instructions_present")
       /\ ~Truthy(input, "rollback_instructions_present")
    THEN <<Msg("Rule#7: rollback instructions must be present")>> ELSE <<>>

CheckMaxDeploymentsInclusive(input, rules) ==
    LET max_deployments == Get(rules, "max_deployments_per_day", 0) IN
    IF max_deployments > 0
    THEN LET deployments_today == Get(input, "deployments_today", 0) IN
         IF deployments_today >= max_deployments
         THEN <<MsgN("Max deployments per day exceeded ({} > {})",
                     deployments_today, max_deployments)>>
         ELSE <<>>
    ELSE <<>>

CheckMaxDeployments(input, rules) ==
    LET max_deployments == Get(rules, "max_deployments_per_day", 0) IN
    IF max_deployments > 0
    THEN LET deployments_today == Get(input, "deployments_today", 0) IN
         IF deployments_today > max_deployments
         THEN <<MsgN("Max deployments per day exceeded ({} > {})",
                     deployments_today, max_deployments)>>
         ELSE <<>>
    ELSE <<>>

\* a _check_rules that returns at the first violation it finds
CheckRulesFirstOnly(input, rules) ==
    LET ticket == CheckTicket(input, rules)
        all == CheckTestsPassed(input, rules) \o CheckArtifactSigned(input, rules)
               \o CheckReleaseControlled(input, rules) \o CheckReviewers(input, rules)
               \o CheckSharedInfra(input, rules) \o CheckChangeRecorded(input, rules)
               \o ticket.value
               \o CheckDateAgreed(input, rules) \o CheckWaitTimer(input, rules)
               \o CheckSignOff(input, rules) \o CheckRetrospective(input, rules)
               \o CheckComponents(input, rules) \o CheckRollback(input, rules)
               \o CheckMaxDeployments(input, rules)
    IN IF ticket.raised THEN ticket
       ELSE Returned(IF all = <<>> THEN <<>> ELSE <<Head(all)>>)

\* _check_rules: the violations in the order the checks append them; an
\* exception of the ticket check leaves the function before it returns
CheckRules(input, rules) ==
    LET ticket == CheckTicket(input, rules) IN
    IF ticket.raised THEN ticket
    ELSE Returned(
           CheckTestsPassed(input, rules) \o CheckArtifactSigned(input, rules)
           \o CheckReleaseControlled(input, rules) \o CheckReviewers(input, rules)
           \o CheckSharedInfra(input, rules) \o CheckChangeRecorded(input, rules)
           \o ticket.value
           \o CheckDateAgreed(input, rules) \o CheckWaitTimer(input, rules)
           \o CheckSignOff(input, rules) \o CheckRetrospective(input, rules)
           \o CheckComponents(input, rules) \o CheckRollback(input, rules)
           \o CheckMaxDeployments(input, rules))

(***************************************************************************)
(* validate_input, in the steps a caller takes through it.                 *)
(***************************************************************************)
\* the result dict a call starts with
NewResult(input) ==
    [allowed |-> FALSE, violations |-> <<>>, input |-> input,
     timestamp |-> "2025-01-18T16:00:00Z"]

\* input_data.get("env", "")
EnvOfDefaultProd(input) == Get(input, "env", "prod")

EnvOf(input) == Get(input, "env", "")

\* self.data.get("policy", {}).get("environments", {})
Environments(d) == Get(Get(d, "policy", EmptyDict), "environments", EmptyDict)

\* env in self.data.get("policy", {}).get("environments", {})
KnownEnv(d, input) == EnvOf(input) \in DOMAIN Environments(d)

\* self.data["policy"]["environments"][env]["rules"]
RulesFor(d, input) == d["policy"]["environments"][EnvOf(input)]["rules"]

\* len(violations) == 0
AllowedOfAlways(violations) == TRUE

AllowedOf(violations) == Len(violations) = 0

\* the else branch: the environment is not in the policy
UnknownEnvResult(res, input) ==
    [res EXCEPT !.violations = <<MsgS("Unknown environment: {}", EnvOf(input))>>]

\* the except branch
ErrorResult(input, exc) ==
    [allowed |-> FALSE,
     violations |-> <<MsgS("Validation error: {}", ExcStr(exc))>>,
     input |-> input, error |-> TRUE]

\* the if branch: the rules are evaluated
EvaluatedResult(res, input, rules) ==
    LET checked == CheckRules(input, rules) IN
    IF checked.raised THEN ErrorResult(input, checked.exc)
    ELSE [res EXCEPT !.violations = checked.value,
                     !.allowed = AllowedOf(checked.value)]

\* self.data after a call that evaluated rules, had the evaluation filled
\* in a default of the rule set it was handed
DataAfterSetDefault(d, input) ==
    [d EXCEPT !["policy"]["environments"][EnvOf(input)]["rules"] =
        Put(@, "wait_timer_seconds", Get(@, "wait_timer_seconds", 1))]

\* self.data after a call: validate_input and _check_rules only read it
DataAfterValidate(d, input) == d

\* validate_input, run to completion on data d
ValidateInput(d, input) ==
    IF KnownEnv(d, input)
    THEN EvaluatedResult(NewResult(input), input, RulesFor(d, input))
    ELSE UnknownEnvResult(NewResult(input), input)

(***************************************************************************)
(* The documents of the model.                                             *)
(***************************************************************************)
Patterns == {"", "J", "1", "^J1$", "(", "J{4294967296}"}

Alphabet == {"J", "1"}

TicketIds == UNION {[1..n -> Alphabet] : n \in 0..MaxLen}

Approvers(n) == [i \in 1..n |-> "a"]

RuleKeys ==
    {"tests_passed", "artifact_signed", "release_controlled", "require_reviewers",
     "min_reviewers", "shared_infra_except_core", "change_recorded", "require_ticket",
     "ticket_pattern", "deployment_date_agreed", "wait_timer_seconds", "signed_off",
     "retrospective_signoff", "components_unchanged", "rollback_instructions_present",
     "max_deployments_per_day"}

RuleValues(k) ==
    CASE k \in {"min_reviewers", "wait_timer_seconds", "max_deployments_per_day"}
           -> 0..MaxN
      [] k = "ticket_pattern" -> Patterns
      [] OTHER -> BOOLEAN

InputKeys ==
    {"env", "checks", "artifact_signed", "release_controlled", "approvers",
     "shared_infra", "change_recorded", "ticket_id", "deployment_date_agreed",
     "wait_elapsed_seconds", "is_emergency", "signed_off",
     "components_changed_after_signoff", "rollback_instructions_present",
     "deployments_today"}

InputValues(k) ==
    CASE k = "env" -> {"prod", "dev", "staging", ""}
      [] k = "checks" -> {EmptyDict, [tests |-> TRUE], [tests |-> FALSE]}
      [] k = "approvers" -> {Approvers(n) : n \in 0..MaxN}
      [] k = "ticket_id" -> TicketIds
      [] k \in {"wait_elapsed_seconds", "deployments_today"} -> 0..MaxN
      [] OTHER -> BOOLEAN

\* base and every document that differs from it in one key (set or absent)
Vary(base, keys, Values(_)) ==
    {base} \cup UNION {{Put(base, k, v) : v \in Values(k)} : k \in keys}
           \cup {Del(base, k) : k \in keys}

StrictRules ==
    [tests_passed |-> TRUE, artifact_signed |-> TRUE, release_controlled |-> TRUE,
     require_reviewers |-> TRUE, min_reviewers |-> 2,
     shared_infra_except_core |-> FALSE, change_recorded |-> TRUE,
     require_ticket |-> TRUE, ticket_pattern |-> "^J1$",
     deployment_date_agreed |-> TRUE, wait_timer_seconds |-> 2, signed_off |-> TRUE,
     retrospective_signoff |-> FALSE, components_unchanged |-> TRUE,
     rollback_instructions_present |-> TRUE, max_deployments_per_day |-> 2]

\* the strict rule set, every rule set one parameter away from it, and the
\* rule set with every parameter absent
RuleSets == Vary(StrictRules, RuleKeys, RuleValues) \cup {EmptyDict}

PolicyOf(r) ==
    [policy |-> [environments |-> [prod |-> [rules |-> r],
                                   dev |-> [rules |-> EmptyDict]]]]

\* the policies a validator may have loaded; EmptyDict is the self.data of
\* a validator constructed without a data file
Policies == {PolicyOf(r) : r \in RuleSets} \cup {EmptyDict}

CompliantInput ==
    [env |-> "prod", checks |-> [tests |-> TRUE], artifact_signed |-> TRUE,
     release_controlled |-> TRUE, approvers |-> <<"a", "a">>, shared_infra |-> FALSE,
     change_recorded |-> TRUE, ticket_id |-> <<"J", "1">>,
     deployment_date_agreed |-> TRUE, wait_elapsed_seconds |-> 2,
     is_emergency |-> FALSE, signed_off |-> TRUE,
     components_changed_after_signoff |-> FALSE,
     rollback_instructions_present |-> TRUE, deployments_today |-> 2]

ViolatingInput ==
    [env |-> "prod", checks |-> [tests |-> FALSE], artifact_signed |-> FALSE,
     release_controlled |-> FALSE, approvers |-> <<"a">>, shared_infra |-> TRUE,
     change_recorded |-> FALSE, ticket_id |-> <<"1", "J">>,
     deployment_date_agreed |-> FALSE, wait_elapsed_seconds |-> 1,
     is_emergency |-> FALSE, signed_off |-> FALSE,
     components_changed_after_signoff |-> TRUE,
     rollback_instructions_present |-> FALSE, deployments_today |-> 3]

Vary2(base) ==
    UNION {Vary(b, InputKeys, InputValues) : b \in Vary(base, InputKeys, InputValues)}

Inputs ==
    Vary2(ViolatingInput) \cup Vary(CompliantInput, InputKeys, InputValues)
    \cup Vary(EmptyDict, InputKeys, InputValues)

(***************************************************************************)
(* State machine: callers c evaluate inputs on one validator.              *)
(***************************************************************************)
Callers == DOMAIN pc

\* validate_input is entered: lines 73-78
Call(c, input) ==
    /\ pc[c] = "idle"
    /\ pc' = [pc EXCEPT ![c] = "lookup"]
    /\ input_data' = [input_data EXCEPT ![c] = input]
    /\ result' = [result EXCEPT ![c] = NewResult(input)]
    /\ UNCHANGED <<policy_file, data>>

\* lines 81-82 and 87-88: the environment is looked up
Lookup(c) ==
    /\ pc[c] = "lookup"
    /\ IF KnownEnv(data, input_data[c])
       THEN /\ pc' = [pc EXCEPT ![c] = "check"]
            /\ UNCHANGED result
       ELSE /\ pc' = [pc EXCEPT ![c] = "done"]
            /\ result' = [result EXCEPT ![c] = UnknownEnvResult(@, input_data[c])]
    /\ UNCHANGED <<policy_file, data, input_data>>

\* lines 83-86 and 92-98: the rules are evaluated
Check(c) ==
    /\ pc[c] = "check"
    /\ pc' = [pc EXCEPT ![c] = "done"]
    /\ result' = [result EXCEPT ![c] =
                    EvaluatedResult(@, input_data[c], RulesFor(data, input_data[c]))]
    /\ data' = DataAfterValidate(data, input_data[c])
    /\ UNCHANGED <<policy_file, input_data>>

\* line 90 or 93: the result goes to the caller and the frame is dropped
Return(c) ==
    /\ pc[c] = "done"
    /\ pc' = [pc EXCEPT ![c] = "idle"]
    /\ input_data' = [input_data EXCEPT ![c] = EmptyDict]
    /\ result' = [result EXCEPT ![c] = EmptyDict]
    /\ UNCHANGED <<policy_file, data>>

\* no batch runner is running
NoBatch ==
    /\ runner = "none"
    /\ bpc = "none"
    /\ scenarios = <<>>
    /\ idx = 0
    /\ passed = 0
    /\ failed = 0
    /\ results = <<>>
    /\ exit_code = -1
    /\ loaded = FALSE

\* __init__: data is what the policy file holds
InitWith(policies, n) ==
    /\ policy_file \in policies
    /\ data = policy_file
    /\ pc = [c \in 1..n |-> "idle"]
    /\ input_data = [c \in 1..n |-> EmptyDict]
    /\ result = [c \in 1..n |-> EmptyDict]
    /\ NoBatch

Init == InitWith(Policies, 1)

Next ==
    /\ UNCHANGED batchvars
    /\ \E c \in Callers :
        \/ \E input \in Inputs : Call(c, input)
        \/ Lookup(c)
        \/ Check(c)
        \/ Return(c)

Spec == Init /\ [][Next]_vars

(***************************************************************************)
(* Concurrent callers: NumThreads threads share one validator.             *)
(***************************************************************************)
ConcPolicies ==
    {PolicyOf(StrictRules), PolicyOf(Put(StrictRules, "ticket_pattern", "J{4294967296}")),
     EmptyDict}

ConcInputs ==
    {CompliantInput, ViolatingInput, Put(ViolatingInput, "env", "dev"),
     Put(CompliantInput, "env", "staging"), Put(ViolatingInput, "is_emergency", TRUE),
     EmptyDict}

InitConc == InitWith(ConcPolicies, NumThreads)

NextConc ==
    /\ UNCHANGED batchvars
    /\ \E c \in Callers :
        \/ \E input \in ConcInputs : Call(c, input)
        \/ Lookup(c)
        \/ Check(c)
        \/ Return(c)

SpecConc == InitConc /\ [][NextConc]_vars

(***************************************************************************)
(* The batch runners: main of validate_policy.py and                       *)
(* run_comprehensive_tests of test_all_scenarios.py.  Each loads the       *)
(* policy and the scenarios of test-inputs/, evaluates every scenario with *)
(* validate_input and returns the process exit code.  validate_input       *)
(* catches every Exception itself, so the except branch of either loop is  *)
(* never entered; a scenario is a dict, load_test_scenarios having dropped *)
(* every file that is not.                                                 *)
(***************************************************************************)
BatchPolicies ==
    {PolicyOf(StrictRules), PolicyOf(Put(StrictRules, "ticket_pattern", "J{4294967296}"))}

BatchInputs ==
    {CompliantInput, ViolatingInput, Put(CompliantInput, "env", "dev"),
     Put(CompliantInput, "env", "staging")}

\* the scenario lists load_test_scenarios may return
ScenarioLists == UNION {[1..n -> BatchInputs] : n \in 0..MaxBatch}

\* the runner starts: the files on disk are what they are
InitBatch ==
    /\ policy_file \in BatchPolicies
    /\ data = EmptyDict
    /\ pc = [c \in 1..1 |-> "idle"]
    /\ input_data = [c \in 1..1 |-> EmptyDict]
    /\ result = [c \in 1..1 |-> EmptyDict]
    /\ runner \in {"main", "comprehensive"}
    /\ bpc = "start"
    /\ scenarios \in ScenarioLists
    /\ idx = 0
    /\ passed = 0
    /\ failed = 0
    /\ results = <<>>
    /\ exit_code = -1
    /\ loaded = FALSE

\* return code: the process exits with it (sys.exit(main()))
Exit(code) ==
    /\ bpc' = "exit"
    /\ exit_code' = code

\* main, lines 297-302
MainExitCodeAlwaysZero(f) == 0

MainExitCode(f) == IF f = 0 THEN 0 ELSE 1

\* run_comprehensive_tests, line 86
CompExitCode(f) == IF f = 0 THEN 0 ELSE 1

\* result.get("allowed") of validator.validate_input(scenario)
ScenarioAllowed(d, scenario) == ValidateInput(d, scenario).allowed

\* main, lines 228-253: the policy data is loaded, or the runner returns 1
MainLoadPolicy ==
    /\ runner = "main" /\ bpc = "start"
    /\ \/ /\ data' = policy_file
          /\ loaded' = TRUE
          /\ bpc' = "load_scenarios"
          /\ UNCHANGED exit_code
       \/ /\ Exit(1)
          /\ UNCHANGED <<data, loaded>>
    /\ UNCHANGED <<policy_file, pc, input_data, result, runner, scenarios, idx,
                   passed, failed, results>>

\* main, lines 256-265: no scenario is an error; else the counters start at 0
MainLoadScenarios ==
    /\ runner = "main" /\ bpc = "load_scenarios"
    /\ IF scenarios = <<>>
       THEN /\ Exit(1)
            /\ UNCHANGED <<idx, passed, failed>>
       ELSE /\ bpc' = "loop"
            /\ idx' = 1
            /\ passed' = 0
            /\ failed' = 0
            /\ UNCHANGED exit_code
    /\ UNCHANGED <<policy_file, data, pc, input_data, result, runner, scenarios,
                   results, loaded>>

\* main, lines 267-291: one scenario is evaluated and counted
MainIterate ==
    /\ runner = "main" /\ bpc = "loop"
    /\ idx <= Len(scenarios)
    /\ IF ScenarioAllowed(data, scenarios[idx])
       THEN passed' = passed + 1 /\ UNCHANGED failed
       ELSE failed' = failed + 1 /\ UNCHANGED passed
    /\ idx' = idx + 1
    /\ UNCHANGED <<policy_file, data, pc, input_data, result, runner, bpc, scenarios,
                   results, exit_code, loaded>>

\* main, lines 293-302: the loop is over
MainSummary ==
    /\ runner = "main" /\ bpc = "loop"
    /\ idx > Len(scenarios)
    /\ Exit(MainExitCode(failed))
    /\ UNCHANGED <<policy_file, data, pc, input_data, result, runner, scenarios, idx,
                   passed, failed, results, loaded>>

\* run_comprehensive_tests, lines 17-20: the scenarios are loaded first
CompLoadScenarios ==
    /\ runner = "comprehensive" /\ bpc = "start"
    /\ IF scenarios = <<>>
       THEN Exit(1)
       ELSE bpc' = "load_policy" /\ UNCHANGED exit_code
    /\ UNCHANGED <<policy_file, data, pc, input_data, result, runner, scenarios, idx,
                   passed, failed, results, loaded>>

\* run_comprehensive_tests, lines 23-36
CompLoadPolicy ==
    /\ runner = "comprehensive" /\ bpc = "load_policy"
    /\ \/ /\ data' = policy_file
          /\ loaded' = TRUE
          /\ bpc' = "loop"
          /\ idx' = 1
          /\ results' = <<>>
          /\ UNCHANGED exit_code
       \/ /\ Exit(1)
          /\ UNCHANGED <<data, loaded, idx, results>>
    /\ UNCHANGED <<policy_file, pc, input_data, result, runner, scenarios,
                   passed, failed>>

\* run_comprehensive_tests, lines 37-65: one scenario is evaluated and recorded
CompIterate ==
    /\ runner = "comprehensive" /\ bpc = "loop"
    /\ idx <= Len(scenarios)
    /\ results' = Append(results, [success |-> ScenarioAllowed(data, scenarios[idx])])
    /\ idx' = idx + 1
    /\ UNCHANGED <<policy_file, data, pc, input_data, result, runner, bpc, scenarios,
                   passed, failed, exit_code, loaded>>

\* run_comprehensive_tests, lines 72-86: the counts and the return code
CompSummary ==
    /\ runner = "comprehensive" /\ bpc = "loop"
    /\ idx > Len(scenarios)
    /\ LET p == Cardinality({i \in DOMAIN results : results[i].success})
           f == Len(results) - p
       IN /\ passed' = p
          /\ failed' = f
          /\ Exit(CompExitCode(f))
    /\ UNCHANGED <<policy_file, data, pc, input_data, result, runner, scenarios, idx,
                   results, loaded>>

NextBatch ==
    \/ MainLoadPolicy
    \/ MainLoadScenarios
    \/ MainIterate
    \/ MainSummary
    \/ CompLoadScenarios
    \/ CompLoadPolicy
    \/ CompIterate
    \/ CompSummary

SpecBatch == InitBatch /\ [][NextBatch]_vars

(***************************************************************************)
(* The statements of the specification, in its own terms: an absent        *)
(* boolean is false, an absent number 0, an absent sequence empty, and a   *)
(* rule parameter is enforced only when present.                           *)
(***************************************************************************)
Present(d, k) == k \in DOMAIN d

B(d, k) == IF Present(d, k) THEN d[k] ELSE FALSE

N(d, k) == IF Present(d, k) THEN d[k] ELSE 0

\* the caller has its result in hand
Done(c) == pc[c] = "done"

\* the environment the input names, "" when it names none
DeclaredEnv(input) == IF Present(input, "env") THEN input["env"] ELSE ""

\* the environments the loaded policy defines
PolicyEnvs ==
    IF Present(policy_file, "policy") THEN DOMAIN policy_file["policy"]["environments"]
    ELSE {}

\* the rule-parameter set the policy gives the input's environment
RulesOfCall(c) == policy_file["policy"]["environments"][DeclaredEnv(input_data[c])]["rules"]

\* the call of c resolved its environment and rule evaluation returned a list
Evaluated(c) ==
    /\ Done(c)
    /\ DeclaredEnv(input_data[c]) \in PolicyEnvs
    /\ ~Present(result[c], "error")

Violations(c) == result[c].violations

HasText(c, text) == \E i \in DOMAIN Violations(c) : Violations(c)[i].text = text

Has(c, m) == \E i \in DOMAIN Violations(c) : Violations(c)[i] = m

\* the pattern compiles and matches the id from its first character on
MatchesAtStart(pattern, id) ==
    LET re == ReCompile(pattern) IN
    /\ re.ok
    /\ Len(re.lit) <= Len(id)
    /\ \A i \in 1..Len(re.lit) : id[i] = re.lit[i]
    /\ (re.dollar => Len(id) = Len(re.lit))

SpecValidTicket(id, pattern) ==
    /\ id # <<>>
    /\ (pattern = "" \/ MatchesAtStart(pattern, id))

SpecTicketId(input) == IF Present(input, "ticket_id") THEN input["ticket_id"] ELSE <<>>

SpecPattern(rules) == IF Present(rules, "ticket_pattern") THEN rules["ticket_pattern"] ELSE ""

SpecApprovers(input) == IF Present(input, "approvers") THEN Len(input["approvers"]) ELSE 0

SpecTests(input) == Present(input, "checks") /\ B(input["checks"], "tests")

\* the 14 checks of section 4.2, each with its condition and its message
SpecChecks(rules, input) ==
    << [cond |-> B(rules, "tests_passed") /\ ~SpecTests(input),
        msg  |-> Msg("Rule#1: tests required but not passed")],
       [cond |-> B(rules, "artifact_signed") /\ ~B(input, "artifact_signed"),
        msg  |-> Msg("Rule#1: artifact must be signed")],
       [cond |-> B(rules, "release_controlled") /\ ~B(input, "release_controlled"),
        msg  |-> Msg("Rule#1: release must be controlled")],
       [cond |-> B(rules, "require_reviewers")
                 /\ SpecApprovers(input) < N(rules, "min_reviewers"),
        msg  |-> MsgN("Rule#1: at least {} approvers required (got {})",
                      N(rules, "min_reviewers"), SpecApprovers(input))],
       [cond |-> /\ Present(rules, "shared_infra_except_core")
                 /\ ~rules["shared_infra_except_core"]
                 /\ B(input, "shared_infra"),
        msg  |-> Msg("Rule#2: production cannot run on shared infra (except core)")],
       [cond |-> B(rules, "change_recorded") /\ ~B(input, "change_recorded"),
        msg  |-> Msg("Rule#3: change must be recorded")],
       [cond |-> B(rules, "require_ticket")
                 /\ ~SpecValidTicket(SpecTicketId(input), SpecPattern(rules)),
        msg  |-> MsgS("Rule#3: ticket id invalid/missing (pattern {})", SpecPattern(rules))],
       [cond |-> B(rules, "deployment_date_agreed") /\ ~B(input, "deployment_date_agreed"),
        msg  |-> Msg("Rule#4: deployment date not agreed")],
       [cond |-> N(rules, "wait_timer_seconds") > 0
                 /\ N(input, "wait_elapsed_seconds") < N(rules, "wait_timer_seconds"),
        msg  |-> MsgN("Rule#4: wait timer not elapsed ({} < {})",
                      N(input, "wait_elapsed_seconds"), N(rules, "wait_timer_seconds"))],
       [cond |-> B(rules, "signed_off") /\ ~B(input, "is_emergency")
                 /\ ~B(input, "signed_off"),
        msg  |-> Msg("Rule#5: missing required sign-off")],
       [cond |-> /\ B(input, "is_emergency")
                 /\ Present(rules, "retrospective_signoff")
                 /\ ~rules["retrospective_signoff"],
        msg  |-> Msg("Rule#5: emergency path requires retrospective_signoff enabled")],
       [cond |-> B(rules, "components_unchanged")
                 /\ B(input, "components_changed_after_signoff"),
        msg  |-> Msg("Rule#6: components changed after signoff; require new signoff")],
       [cond |-> B(rules, "rollback_instructions_present")
                 /\ ~B(input, "rollback_instructions_present"),
        msg  |-> Msg("Rule#7: rollback instructions must be present")],
       [cond |-> N(rules, "max_deployments_per_day") > 0
                 /\ N(input, "deployments_today") > N(rules, "max_deployments_per_day"),
        msg  |-> MsgN("Max deployments per day exceeded ({} > {})",
                      N(input, "deployments_today"), N(rules, "max_deployments_per_day"))] >>

\* the messages of the checks whose condition holds, in the order 1..14
SpecViolations(rules, input) ==
    LET Holds(ch) == ch.cond
        fired == SelectSeq(SpecChecks(rules, input), Holds)
    IN [i \in 1..Len(fired) |-> fired[i].msg]

NoDuplicates(seq) == \A i, j \in DOMAIN seq : seq[i] = seq[j] => i = j

(***************************************************************************)
(* C1.  Every result validate_input returns, on the rules-evaluated path,  *)
(* the unknown-environment path and the caught-exception path, has         *)
(* allowed = true if and only if its violations list is empty.             *)
(***************************************************************************)
C1_AllowedIffNoViolations ==
    \A c \in Callers : Done(c) => (result[c].allowed <=> Violations(c) = <<>>)

\* a call that evaluated enforced rules and was allowed
C1_Witness ==
    \E c \in Callers :
        /\ Evaluated(c)
        /\ RulesOfCall(c) # EmptyDict
        /\ result[c].allowed
        /\ Violations(c) = <<>>

(***************************************************************************)
(* C2.  When the input's env ("" when absent) is not a key of the policy's *)
(* environments, the result is allowed = false with the single violation   *)
(* "Unknown environment: {env}", whatever the other input fields are: no   *)
(* rule check contributes a message.                                       *)
(***************************************************************************)
C2_UnknownEnvironment ==
    \A c \in Callers :
        (Done(c) /\ DeclaredEnv(input_data[c]) \notin PolicyEnvs)
        => /\ result[c].allowed = FALSE
           /\ Violations(c) =
                <<MsgS("Unknown environment: {}", DeclaredEnv(input_data[c]))>>
           /\ ~Present(result[c], "error")

\* an input without env, violating in its other fields, against a policy
\* that defines environments
C2_Witness ==
    \E c \in Callers :
        /\ Done(c)
        /\ ~Present(input_data[c], "env")
        /\ B(input_data[c], "shared_infra")
        /\ PolicyEnvs # {}
        /\ Len(Violations(c)) = 1

C4_EmptyRulesAllow ==
    \A c \in Callers :
        (Done(c) /\ DeclaredEnv(input_data[c]) \in PolicyEnvs
                 /\ RulesOfCall(c) = EmptyDict)
        => /\ Violations(c) = <<>>
           /\ result[c].allowed = TRUE

\* an input on shared infra, unsigned, late and over any limit, under empty rules
C4_Witness ==
    \E c \in Callers :
        /\ Done(c)
        /\ DeclaredEnv(input_data[c]) \in PolicyEnvs
        /\ RulesOfCall(c) = EmptyDict
        /\ B(input_data[c], "shared_infra")
        /\ ~B(input_data[c], "signed_off")
        /\ N(input_data[c], "deployments_today") > 0
        /\ result[c].allowed

C7_TicketValidation ==
    \A c \in Callers :
        (Done(c) /\ DeclaredEnv(input_data[c]) \in PolicyEnvs
                 /\ B(RulesOfCall(c), "require_ticket"))
        => /\ ~Present(result[c], "error")
           /\ ~HasText(c, "Rule#3: ticket id invalid/missing (pattern {})")
              <=> SpecValidTicket(SpecTicketId(input_data[c]),
                                  SpecPattern(RulesOfCall(c)))

C9_NoInterference ==
    /\ data = policy_file
    /\ \A c \in Callers : Done(c) => result[c] = ValidateInput(policy_file, input_data[c])

\* two calls finished side by side on different inputs, one allowed, one denied
C9_Witness ==
    \E c1, c2 \in Callers :
        /\ c1 # c2
        /\ Evaluated(c1) /\ Evaluated(c2)
        /\ result[c1].allowed
        /\ ~result[c2].allowed

(***************************************************************************)
(* C10.  There is no exception path out of rule evaluation: for an input   *)
(* whose environment is known, validate_input never returns the error      *)
(* result (error = true, "Validation error: ...").                         *)
(***************************************************************************)
C10_NoErrorResult ==
    \A c \in Callers :
        (Done(c) /\ DeclaredEnv(input_data[c]) \in PolicyEnvs)
        => /\ ~Present(result[c], "error")
           /\ ~HasText(c, "Validation error: {}")

(***************************************************************************)
(* C11, as stated.  After the policy has loaded, for every batch of zero   *)
(* or more scenarios, a batch runner exits 0 if and only if no scenario    *)
(* was denied, and non-zero otherwise; at the end of the loop              *)
(* passed + failed equals the number of scenarios.                         *)
(***************************************************************************)
\* the runner has returned its exit code, the policy having loaded
ExitedLoaded == bpc = "exit" /\ loaded

\* no scenario of the batch is denied by the loaded policy
NoFailures == \A i \in DOMAIN scenarios : ValidateInput(policy_file, scenarios[i]).allowed

C11_ExitCodeIffNoFailures ==
    ExitedLoaded
    => /\ exit_code = 0 <=> NoFailures
       /\ exit_code # 0 <=> ~NoFailures
       /\ passed + failed = Len(scenarios)

(***************************************************************************)
(* C11, amended.  After the policy has loaded, for every batch of one or   *)
(* more scenarios, a batch runner exits 0 if and only if no scenario was   *)
(* denied and 1 otherwise, and at the end of the loop passed + failed      *)
(* equals the number of scenarios; a batch of zero scenarios exits 1.      *)
(***************************************************************************)
C11_ExitCodeNonEmptyBatch ==
    ExitedLoaded
    => /\ scenarios # <<>>
          => /\ exit_code = 0 <=> NoFailures
             /\ exit_code = 1 <=> ~NoFailures
             /\ passed + failed = Len(scenarios)
             /\ failed = Cardinality({i \in DOMAIN scenarios :
                            ~ValidateInput(policy_file, scenarios[i]).allowed})
       /\ scenarios = <<>> => exit_code = 1

\* a batch with an allowed and a denied scenario has been run to its exit
C11_Witness ==
    /\ ExitedLoaded
    /\ Len(scenarios) >= 2
    /\ passed >= 1
    /\ failed >= 1
    /\ exit_code = 1

====
